---- MODULE Spec2Model ----
(***************************************************************************)
(* Model of the statistics engine of tetra_bot (package stats): the        *)
(* Manager that keeps a bounded history of speed-test Results and the      *)
(* 24-hour Summary computed from it.                                       *)
(*                                                                         *)
(* Manager.Add holds mu.Lock and Manager.GetLast24hSummary holds mu.RLock  *)
(* for their whole bodies (deferred unlock), so each call is one atomic    *)
(* step of the model and concurrent callers interleave whole calls.        *)
(*                                                                         *)
(* Units.  time.Time is an integer count of days, so that 24*time.Hour is  *)
(* one unit.  Download and Upload (float64 Mbps) are naturals; a float64   *)
(* quotient is kept as the exact fraction in lowest terms.  Ping           *)
(* (time.Duration) is a natural and its quotient truncates, as int64       *)
(* division does.  Result.Error is TRUE when the Go error is non-nil.      *)
(* BytesReceived and BytesSent are never read or written by the package    *)
(* and are left out.                                                       *)
(*                                                                         *)
(* The other components (the Telegram sender of package telegram, the      *)
(* measurement cycle and the daily report of package main, the report      *)
(* text) have their own variables and their own specification each; a      *)
(* specification pins the variables of the components it does not exercise *)
(* to one idle value.                                                      *)
(***************************************************************************)
EXTENDS Integers, Sequences, FiniteSets, TLC

\* The Manager and the call made on it last.
VARIABLES results, maxSize, call

\* The Telegram bot: the message channel, the sender goroutine, the context
\* handed to Start, and the step taken last.
VARIABLES msgQueue, sender, ctxDone, obs

\* Summary.String: the Summary it is called on and the text it returns.
VARIABLES render

vars == <<results, maxSize, call>>

botVars == <<msgQueue, sender, ctxDone, obs>>

renderVars == <<render>>

\* dailyReportLoop: its configuration, the clock it reads, its position and
\* the instants at which it submitted a report.
VARIABLES daily

dailyVars == <<daily>>

\* The Manager under concurrent callers: the lock m.mu, every task's
\* position and locals, and the history after each completed Add.
VARIABLES mu, task, versions

lockVars == <<mu, task, versions>>

concVars == <<results, maxSize, mu, task, versions>>

\* The test-and-record cycle: the mutex testMu, every trigger's position in
\* runTest and Run with its locals, whether ctx is cancelled, the clock that
\* time.Now() reads, and main's position.
VARIABLES testMu, trigger, ctxErr, clock, main

cycleVars == <<testMu, trigger, ctxErr, clock, main>>

measVars == <<results, maxSize, testMu, trigger, ctxErr, clock, main>>

\* The running system handler by handler: its clock, whether ctx is
\* cancelled, whether the startup test has run, and for every stored record
\* whether a manual test produced it.
VARIABLES sys

sysVars == <<sys>>

systemVars == <<results, maxSize, call, sys>>

\* The tasks of the process reduced to their use of testMu, m.mu and
\* msgQueue: every task's position and the message it carries.
VARIABLES proc

procVars == <<proc>>

taskVars == <<testMu, mu, msgQueue, ctxDone, proc>>

MgrIdle ==
    /\ results = <<>>
    /\ maxSize = 1
    /\ call = [op |-> "none"]

BotIdle ==
    /\ msgQueue = <<>>
    /\ sender = [pc |-> "idle"]
    /\ ctxDone = FALSE
    /\ obs = [op |-> "none"]

RenderIdle == render = [pc |-> "idle"]

DailyIdle == daily = [pc |-> "idle"]

ConcIdle ==
    /\ mu = [w |-> "none", held |-> FALSE, readers |-> {}, blocked |-> {}]
    /\ task = <<>>
    /\ versions = <<>>

MeasureIdle ==
    /\ testMu = "none"
    /\ trigger = <<>>
    /\ ctxErr = FALSE
    /\ clock = 0
    /\ main = [pc |-> "idle"]

SysIdle == sys = [clock |-> 0]

ProcIdle == proc = <<>>

\* What the Manager's specification leaves alone.
notMgr ==
    <<botVars, renderVars, dailyVars, lockVars, cycleVars, sysVars, procVars>>

\* What the bot's specification leaves alone.
notBot ==
    <<vars, renderVars, dailyVars, lockVars, cycleVars, sysVars, procVars>>

\* What the specification of Summary.String leaves alone.
notRender ==
    <<vars, botVars, dailyVars, lockVars, cycleVars, sysVars, procVars>>

\* What the specification of dailyReportLoop leaves alone.
notDaily ==
    <<vars, botVars, renderVars, lockVars, cycleVars, sysVars, procVars>>

\* What the specification of the concurrent Manager leaves alone.
notConc ==
    <<call, botVars, renderVars, dailyVars, cycleVars, sysVars, procVars>>

\* What the specification of the test-and-record cycle leaves alone.
notMeasure ==
    <<call, botVars, renderVars, dailyVars, lockVars, sysVars, procVars>>

\* What the specification of the running system leaves alone.
notSystem ==
    <<botVars, renderVars, dailyVars, lockVars, cycleVars, procVars>>

\* What the specification of the tasks and their locks leaves alone.
notTasks ==
    <<vars, sender, obs, renderVars, dailyVars, task, versions, trigger,
      ctxErr, clock, main, sysVars>>

\* ---- bounds of the model ----
\* Timestamps are 0 .. MaxTime, and a summary is asked for at the instants
\* Window .. Window + MaxTime, so that the cutoff ranges over 0 .. MaxTime.
MaxTime == 1

\* Capacities handed to NewManager, and the throughputs and pings a Result
\* carries.  A capacity of 0 or less selects DefaultMaxSize, a history too
\* long to enumerate, and is left to the definition of NewManager.
Capacities == 1 .. 2
Mbps == 0 .. 1
Pings == 0 .. 1
MaxMbps == CHOOSE m \in Mbps : \A x \in Mbps : x <= m
MaxPing == CHOOSE m \in Pings : \A x \in Pings : x <= m

\* ---- program constants ----
DefaultMaxSize == 100
Window == 1

\* math.MaxFloat64 and math.MaxInt64, the initial values of the Min fields:
\* values above every throughput and every ping a Result can carry.
MaxFloat64 == MaxMbps + 1
MaxInt64 == MaxPing + 1

\* ---- types ----
Result ==
    [Time : 0 .. MaxTime, Download : Mbps, Upload : Mbps,
     Ping : Pings, Error : BOOLEAN, AlertSent : BOOLEAN]

RECURSIVE GCD(_, _)
GCD(a, b) == IF b = 0 THEN a ELSE GCD(b, a % b)

\* float64 division a / b (b > 0) as an exact fraction in lowest terms.
FloatDiv(a, b) == [num |-> a \div GCD(a, b), den |-> b \div GCD(a, b)]

\* The float64 zero value.
FloatZero == [num |-> 0, den |-> 1]

\* Summary{} : every field at its zero value.
ZeroSummary ==
    [TotalTests |-> 0,
     AvgDownload |-> FloatZero, MinDownload |-> 0, MaxDownload |-> 0,
     AvgUpload |-> FloatZero, MinUpload |-> 0, MaxUpload |-> 0,
     AvgPing |-> 0, MinPing |-> 0, MaxPing |-> 0,
     AlertsCount |-> 0, LowSpeedEvents |-> <<>>]

\* ---- NewManager ----
NewManager(n) ==
    [results |-> <<>>, maxSize |-> IF n <= 0 THEN DefaultMaxSize ELSE n]

\* ---- Manager.Add ----
\* Faulty variant: the trim keeps one record too many.
AddResultsOffByOne(rs, r, n) ==
    LET appended == Append(rs, r)
    IN  IF Len(appended) > n + 1
        THEN SubSeq(appended, Len(appended) - n, Len(appended))
        ELSE appended

\* Faulty variant: the trim keeps the oldest records, results[:maxSize].
AddResultsKeepFirst(rs, r, n) ==
    LET appended == Append(rs, r)
    IN  IF Len(appended) > n THEN SubSeq(appended, 1, n) ELSE appended

\* append, then results[len(results)-maxSize:] when over capacity.
AddResults(rs, r, n) ==
    LET appended == Append(rs, r)
    IN  IF Len(appended) > n
        THEN SubSeq(appended, Len(appended) - n + 1, Len(appended))
        ELSE appended

\* ---- Manager.GetLast24hSummary ----
\* Faulty variant: !t.Before(u), which lets in a record stamped at the cutoff.
AfterOrEqual(t, u) == t >= u

\* Faulty variant: t.Before(u), the comparison turned around.
Before(t, u) == t < u

\* time.Time.After
After(t, u) == t > u

Cutoff(now) == now - Window

Filtered(rs, now) == SelectSeq(rs, LAMBDA r : After(r.Time, Cutoff(now)))

InitialSummary(filtered) ==
    [ZeroSummary EXCEPT !.TotalTests = Len(filtered),
                        !.MinDownload = MaxFloat64,
                        !.MinUpload = MaxFloat64,
                        !.MinPing = MaxInt64]

\* Faulty variant: every valid record counts as an alert.
CountAlertAlways(count, r) == count + 1

\* if r.AlertSent { s.AlertsCount++ }
CountAlert(count, r) == IF r.AlertSent THEN count + 1 ELSE count

\* Faulty variant: && in place of ||.
LowSpeedEventBoth(r, dlThreshold, ulThreshold) ==
    r.Download < dlThreshold /\ r.Upload < ulThreshold

\* Faulty variant: <= in place of <, so a record at its threshold is low.
LowSpeedEventOrEqual(r, dlThreshold, ulThreshold) ==
    r.Download <= dlThreshold \/ r.Upload <= ulThreshold

\* r.Download < dlThreshold || r.Upload < ulThreshold
LowSpeedEvent(r, dlThreshold, ulThreshold) ==
    r.Download < dlThreshold \/ r.Upload < ulThreshold

\* The part of the loop body that a record without an error reaches.
Observe(acc, r, dlThreshold, ulThreshold) ==
    [sumDL |-> acc.sumDL + r.Download,
     sumUL |-> acc.sumUL + r.Upload,
     sumPing |-> acc.sumPing + r.Ping,
     s |-> [acc.s EXCEPT
              !.MinDownload = IF r.Download < @ THEN r.Download ELSE @,
              !.MaxDownload = IF r.Download > @ THEN r.Download ELSE @,
              !.MinUpload = IF r.Upload < @ THEN r.Upload ELSE @,
              !.MaxUpload = IF r.Upload > @ THEN r.Upload ELSE @,
              !.MinPing = IF r.Ping < @ THEN r.Ping ELSE @,
              !.MaxPing = IF r.Ping > @ THEN r.Ping ELSE @,
              !.AlertsCount = CountAlert(@, r),
              !.LowSpeedEvents =
                  IF LowSpeedEvent(r, dlThreshold, ulThreshold)
                  THEN Append(@, r) ELSE @]]

\* Faulty variant: failed records are not skipped.
AccumulateNoSkip(acc, r, dlThreshold, ulThreshold) ==
    Observe(acc, r, dlThreshold, ulThreshold)

\* One iteration of the loop over filtered; acc holds s and the three sums.
Accumulate(acc, r, dlThreshold, ulThreshold) ==
    IF r.Error THEN acc ELSE Observe(acc, r, dlThreshold, ulThreshold)

RECURSIVE Loop(_, _, _, _)
Loop(acc, rs, dlThreshold, ulThreshold) ==
    IF rs = <<>>
    THEN acc
    ELSE Loop(Accumulate(acc, Head(rs), dlThreshold, ulThreshold), Tail(rs),
              dlThreshold, ulThreshold)

ValidTests(filtered) == Len(SelectSeq(filtered, LAMBDA r : ~r.Error))

\* Faulty variant: the minima keep their initial values when nothing is valid.
FinishNoReset(acc, validTests) ==
    IF validTests > 0
    THEN [acc.s EXCEPT !.AvgDownload = FloatDiv(acc.sumDL, validTests),
                       !.AvgUpload = FloatDiv(acc.sumUL, validTests),
                       !.AvgPing = acc.sumPing \div validTests]
    ELSE acc.s

\* The averages, or the reset of the minima when no record is valid.
Finish(acc, validTests) ==
    IF validTests > 0
    THEN [acc.s EXCEPT !.AvgDownload = FloatDiv(acc.sumDL, validTests),
                       !.AvgUpload = FloatDiv(acc.sumUL, validTests),
                       !.AvgPing = acc.sumPing \div validTests]
    ELSE [acc.s EXCEPT !.MinDownload = 0, !.MinUpload = 0, !.MinPing = 0]

\* Faulty variant: the empty window returns s as initialised, not Summary{}.
SummarizeEarlySentinel(rs, now, dlThreshold, ulThreshold) ==
    LET filtered == Filtered(rs, now)
    IN  IF Len(filtered) = 0
        THEN InitialSummary(filtered)
        ELSE Finish(Loop([sumDL |-> 0, sumUL |-> 0, sumPing |-> 0,
                          s |-> InitialSummary(filtered)],
                         filtered, dlThreshold, ulThreshold),
                    ValidTests(filtered))

\* The value GetLast24hSummary returns.
Summarize(rs, now, dlThreshold, ulThreshold) ==
    LET filtered == Filtered(rs, now)
    IN  IF Len(filtered) = 0
        THEN ZeroSummary
        ELSE Finish(Loop([sumDL |-> 0, sumUL |-> 0, sumPing |-> 0,
                          s |-> InitialSummary(filtered)],
                         filtered, dlThreshold, ulThreshold),
                    ValidTests(filtered))

\* ---- the state machine ----
\* call is the most recent call on the Manager with its arguments and what
\* it returned: trimmed tells whether Add took its trim branch, filtered is
\* the local slice of GetLast24hSummary and ret its return value.
Init ==
    /\ \E n \in Capacities :
          /\ results = NewManager(n).results
          /\ maxSize = NewManager(n).maxSize
    /\ call = [op |-> "NewManager"]
    /\ BotIdle
    /\ RenderIdle
    /\ DailyIdle
    /\ ConcIdle
    /\ MeasureIdle
    /\ SysIdle
    /\ ProcIdle

Add ==
    \E r \in Result :
       /\ results' = AddResults(results, r, maxSize)
       /\ call' = [op |-> "Add", r |-> r,
                   trimmed |-> Len(results) + 1 > maxSize]
       /\ UNCHANGED maxSize
       /\ UNCHANGED notMgr

\* Faulty variant: the window is filtered in place, filtered := m.results[:0],
\* so the call shortens the stored history to what it returned.
GetLast24hSummaryInPlace ==
    \E now \in Window .. Window + MaxTime, dlThreshold \in Mbps,
       ulThreshold \in Mbps :
       /\ call' = [op |-> "GetLast24hSummary", now |-> now,
                   dlThreshold |-> dlThreshold, ulThreshold |-> ulThreshold,
                   filtered |-> Filtered(results, now),
                   ret |-> Summarize(results, now, dlThreshold, ulThreshold)]
       /\ results' = Filtered(results, now)
       /\ UNCHANGED maxSize
       /\ UNCHANGED notMgr

GetLast24hSummary ==
    \E now \in Window .. Window + MaxTime, dlThreshold \in Mbps,
       ulThreshold \in Mbps :
       /\ call' = [op |-> "GetLast24hSummary", now |-> now,
                   dlThreshold |-> dlThreshold, ulThreshold |-> ulThreshold,
                   filtered |-> Filtered(results, now),
                   ret |-> Summarize(results, now, dlThreshold, ulThreshold)]
       /\ UNCHANGED <<results, maxSize>>
       /\ UNCHANGED notMgr

Next == Add \/ GetLast24hSummary

Spec == Init /\ [][Next]_vars

TypeOK ==
    /\ results \in Seq(Result)
    /\ maxSize \in Capacities
    /\ call.op \in {"NewManager", "Add", "GetLast24hSummary"}

\* ---- reference notions the properties are stated with ----
IsSummaryCall == call.op = "GetLast24hSummary"

\* Positions of the stored records stamped strictly later than now - 24h.
InWindow(rs, now) == {i \in 1 .. Len(rs) : rs[i].Time > now - Window}

\* Positions of the in-window records without an error.
ValidInWindow(rs, now) == {i \in InWindow(rs, now) : ~rs[i].Error}

RECURSIVE SumOver(_, _)
SumOver(f, S) ==
    IF S = {} THEN 0
    ELSE LET i == CHOOSE j \in S : TRUE IN f[i] + SumOver(f, S \ {i})

MinOver(f, S) == CHOOSE x \in {f[i] : i \in S} : \A i \in S : x <= f[i]

MaxOver(f, S) == CHOOSE x \in {f[i] : i \in S} : \A i \in S : x >= f[i]

Downloads(rs) == [i \in 1 .. Len(rs) |-> rs[i].Download]

Uploads(rs) == [i \in 1 .. Len(rs) |-> rs[i].Upload]

PingsOf(rs) == [i \in 1 .. Len(rs) |-> rs[i].Ping]

\* The float q is the quotient a / b.
IsQuotient(q, a, b) == q.den > 0 /\ q.num * b = a * q.den

\* The last n elements of s (all of s when it is shorter).
LastN(s, n) ==
    LET k == IF Len(s) < n THEN Len(s) ELSE n
    IN  [i \in 1 .. k |-> s[Len(s) - k + i]]

IsLowSpeed(r, dlThreshold, ulThreshold) ==
    r.Download < dlThreshold \/ r.Upload < ulThreshold

\* ---- C1 ----
\* C1: in every reachable state the number of stored records is at most the
\* capacity the Manager was created with.
C1_LengthWithinCapacity == Len(results) <= maxSize

\* An Add that found the history full has just returned.
C1_Witness ==
    /\ call.op = "Add"
    /\ call.trimmed
    /\ maxSize = 2
    /\ Len(results) = maxSize

\* ---- C2 ----
\* C2: every Add leaves the history holding the last maxSize records added, in
\* insertion order: the new record is at the tail, an Add below capacity
\* keeps every older record, and an Add at capacity drops exactly the oldest
\* one.  Add is enabled in every state.
C2_AddKeepsLastN ==
    [][call'.op = "Add" =>
          /\ results' = LastN(Append(results, call'.r), maxSize)
          /\ Len(results) < maxSize => results' = Append(results, call'.r)
          /\ Len(results) = maxSize =>
                results' = Append(Tail(results), call'.r)
          /\ ENABLED Add]_vars

\* An Add at capacity 2 has evicted the oldest record and the two records
\* kept differ, so their order is observable.
C2_Witness ==
    /\ call.op = "Add"
    /\ call.trimmed
    /\ maxSize = 2
    /\ Len(results) = 2
    /\ results[1] # results[2]
    /\ results[2] = call.r

\* ---- C3 ----
\* C3: TotalTests is the number of stored records stamped strictly later than
\* now - 24h, failed records included, whatever their position.
C3_TotalTestsCountsWindow ==
    IsSummaryCall => call.ret.TotalTests = Cardinality(InWindow(results, call.now))

\* The history starts with a failed in-window record and ends with a record
\* stamped exactly now - 24h: the first is counted, the second is not.
C3_Witness ==
    /\ IsSummaryCall
    /\ Len(results) = 2
    /\ results[1].Error
    /\ results[1].Time > call.now - Window
    /\ results[2].Time = call.now - Window
    /\ call.ret.TotalTests = 1

\* ---- C4 ----
\* C4 as stated: a cutoff (now - 24h) strictly before every stored timestamp
\* gives the empty snapshot, and a cutoff after every stored timestamp gives
\* the full history.
C4_Original ==
    IsSummaryCall =>
       /\ (\A i \in 1 .. Len(results) : call.now - Window < results[i].Time)
             => call.filtered = <<>>
       /\ (\A i \in 1 .. Len(results) : call.now - Window > results[i].Time)
             => call.filtered = results

\* C4: a cutoff (now - 24h) strictly before every stored timestamp gives the
\* full history in insertion order, and a cutoff after every stored timestamp
\* gives the empty snapshot.
C4_SnapshotExtremes ==
    IsSummaryCall =>
       /\ (\A i \in 1 .. Len(results) : call.now - Window < results[i].Time)
             => call.filtered = results
       /\ (\A i \in 1 .. Len(results) : call.now - Window > results[i].Time)
             => call.filtered = <<>>

\* Two different records, both later than the cutoff, come back in order.
C4_Witness ==
    /\ IsSummaryCall
    /\ Len(results) = 2
    /\ results[1] # results[2]
    /\ \A i \in 1 .. 2 : call.now - Window < results[i].Time
    /\ call.filtered = results

\* ---- C5 ----
\* C5: when no stored record is in the window, the Summary has TotalTests 0,
\* every average, minimum and maximum 0, AlertsCount 0 and no low-speed
\* event.
C5_EmptyWindowIsZero ==
    (IsSummaryCall /\ InWindow(results, call.now) = {}) =>
       /\ call.ret.TotalTests = 0
       /\ call.ret.AvgDownload.num = 0
       /\ call.ret.MinDownload = 0
       /\ call.ret.MaxDownload = 0
       /\ call.ret.AvgUpload.num = 0
       /\ call.ret.MinUpload = 0
       /\ call.ret.MaxUpload = 0
       /\ call.ret.AvgPing = 0
       /\ call.ret.MinPing = 0
       /\ call.ret.MaxPing = 0
       /\ call.ret.AlertsCount = 0
       /\ call.ret.LowSpeedEvents = <<>>

\* A summary of a full history whose records are all outside the window, one
\* of them flagged and below the thresholds.
C5_Witness ==
    /\ IsSummaryCall
    /\ Len(results) = 2
    /\ InWindow(results, call.now) = {}
    /\ results[1].AlertSent
    /\ IsLowSpeed(results[1], call.dlThreshold, call.ulThreshold)
    /\ results[2].Download > 0
    /\ call.ret.TotalTests = 0

\* ---- C6 ----
\* C6: with k >= 1 valid and m >= 0 failed records in the window, TotalTests
\* is k + m, each average is the sum over the k valid records divided by k
\* (the ping quotient truncated to a whole Duration), and each minimum and
\* maximum is taken over the k valid records only.
C6_MetricsOverValidOnly ==
    LET V == ValidInWindow(results, call.now)
        k == Cardinality(V)
        m == Cardinality(InWindow(results, call.now) \ V)
    IN  (IsSummaryCall /\ k >= 1) =>
           /\ call.ret.TotalTests = k + m
           /\ IsQuotient(call.ret.AvgDownload, SumOver(Downloads(results), V), k)
           /\ IsQuotient(call.ret.AvgUpload, SumOver(Uploads(results), V), k)
           /\ call.ret.AvgPing = SumOver(PingsOf(results), V) \div k
           /\ call.ret.MinDownload = MinOver(Downloads(results), V)
           /\ call.ret.MaxDownload = MaxOver(Downloads(results), V)
           /\ call.ret.MinUpload = MinOver(Uploads(results), V)
           /\ call.ret.MaxUpload = MaxOver(Uploads(results), V)
           /\ call.ret.MinPing = MinOver(PingsOf(results), V)
           /\ call.ret.MaxPing = MaxOver(PingsOf(results), V)

\* One valid record with all metrics 0 next to a failed record that carries
\* non-zero metrics: the failed record leaves maxima and averages at 0.
C6_Witness ==
    /\ IsSummaryCall
    /\ Len(results) = 2
    /\ InWindow(results, call.now) = {1, 2}
    /\ ~results[1].Error
    /\ results[1].Download = 0 /\ results[1].Upload = 0 /\ results[1].Ping = 0
    /\ results[2].Error
    /\ results[2].Download = 1 /\ results[2].Upload = 1 /\ results[2].Ping = 1
    /\ call.ret.TotalTests = 2
    /\ call.ret.MaxDownload = 0

\* ---- C7 ----
\* C7: when the window holds only failed records, TotalTests is their number
\* and every minimum, maximum and average is 0.
C7_OnlyFailuresIsZero ==
    LET W == InWindow(results, call.now)
    IN  (IsSummaryCall /\ W # {} /\ ValidInWindow(results, call.now) = {}) =>
           /\ call.ret.TotalTests = Cardinality(W)
           /\ call.ret.AvgDownload.num = 0
           /\ call.ret.MinDownload = 0
           /\ call.ret.MaxDownload = 0
           /\ call.ret.AvgUpload.num = 0
           /\ call.ret.MinUpload = 0
           /\ call.ret.MaxUpload = 0
           /\ call.ret.AvgPing = 0
           /\ call.ret.MinPing = 0
           /\ call.ret.MaxPing = 0

\* Two failed in-window records that carry non-zero metrics.
C7_Witness ==
    /\ IsSummaryCall
    /\ Len(results) = 2
    /\ InWindow(results, call.now) = {1, 2}
    /\ \A i \in 1 .. 2 :
          results[i].Error /\ results[i].Download = 1 /\ results[i].Ping = 1
    /\ call.ret.TotalTests = 2
    /\ call.ret.MinDownload = 0

C9_Original ==
    IsSummaryCall =>
       call.ret.AlertsCount =
          Cardinality({i \in InWindow(results, call.now) : results[i].AlertSent})

\* C9: AlertsCount is the number of in-window records without an error whose
\* AlertSent flag is set.
C9_AlertsCountValidOnly ==
    IsSummaryCall =>
       call.ret.AlertsCount =
          Cardinality({i \in ValidInWindow(results, call.now) : results[i].AlertSent})

\* A flagged valid record is counted, a flagged failed record is not.
C9_Witness ==
    /\ IsSummaryCall
    /\ Len(results) = 2
    /\ InWindow(results, call.now) = {1, 2}
    /\ results[1].AlertSent /\ ~results[1].Error
    /\ results[2].AlertSent /\ results[2].Error
    /\ call.ret.AlertsCount = 1

\* ---- C10 ----
\* C10: GetLast24hSummary leaves the history and the capacity unchanged, and a
\* call that directly follows another with the same reference time and
\* thresholds returns the same Summary.
C10_SummaryIsReadOnly ==
    [][call'.op = "GetLast24hSummary" =>
          /\ results' = results
          /\ maxSize' = maxSize
          /\ (/\ call.op = "GetLast24hSummary"
              /\ call'.now = call.now
              /\ call'.dlThreshold = call.dlThreshold
              /\ call'.ulThreshold = call.ulThreshold)
                => call'.ret = call.ret]_vars

\* A summary over a full history with one record outside the window and one
\* low-speed record inside it.
C10_Witness ==
    /\ IsSummaryCall
    /\ Len(results) = 2
    /\ Cardinality(InWindow(results, call.now)) = 1
    /\ Len(call.ret.LowSpeedEvents) = 1

\* ======================================================================
\* The Telegram bot (package telegram): Send, senderLoop and
\* sendMessageWithRetry.  A message is known by its kind only.  Durations
\* are whole seconds.  sender.attempts and sender.waits record, for the
\* message in hand, the calls of SendMessage made and the backoffs waited
\* out in full.
\* ======================================================================

\* ---- bounds of the model ----
\* The buffer of msgQueue, make(chan string, 100) in the program.
QueueCapacity == 3

Msgs == {"alert", "report"}

\* ---- program constants ----
InitialBackoff == 1
MaxBackoff == 30
MaxRetries == 5

\* ---- Bot.Send ----
\* Faulty variant: the buffer takes one message more than its capacity.
SendQueueOneMore(q, msg) ==
    IF Len(q) <= QueueCapacity THEN Append(q, msg) ELSE q

\* select { case b.msgQueue <- msg: default: dropped }
SendQueue(q, msg) ==
    IF Len(q) < QueueCapacity THEN Append(q, msg) ELSE q

Send ==
    \E msg \in Msgs :
       /\ msgQueue' = SendQueue(msgQueue, msg)
       /\ obs' = [op |-> "Send", msg |-> msg,
                  dropped |-> ~(Len(msgQueue) < QueueCapacity)]
       /\ UNCHANGED <<sender, ctxDone>>
       /\ UNCHANGED notBot

\* ---- Bot.senderLoop ----
\* case msg := <-b.msgQueue, and the first lines of sendMessageWithRetry.
SenderReceive ==
    /\ sender.pc = "select"
    /\ msgQueue # <<>>
    /\ sender' = [pc |-> "send", text |-> Head(msgQueue), i |-> 0,
                  backoff |-> InitialBackoff, attempts |-> 0, waits |-> <<>>]
    /\ msgQueue' = Tail(msgQueue)
    /\ obs' = [op |-> "receive", msg |-> Head(msgQueue)]
    /\ UNCHANGED ctxDone
    /\ UNCHANGED notBot

\* case <-ctx.Done(): return
SenderReturn ==
    /\ sender.pc = "select"
    /\ ctxDone
    /\ sender' = [sender EXCEPT !.pc = "returned"]
    /\ obs' = [op |-> "return"]
    /\ UNCHANGED <<msgQueue, ctxDone>>
    /\ UNCHANGED notBot

\* ---- Bot.sendMessageWithRetry ----
\* Faulty variant: the backoff grows by one second instead of doubling.
NextBackoffLinear(backoff) ==
    IF backoff + 1 > MaxBackoff THEN MaxBackoff ELSE backoff + 1

\* backoff *= 2, capped at maxBackoff
NextBackoff(backoff) ==
    IF backoff * 2 > MaxBackoff THEN MaxBackoff ELSE backoff * 2

\* One call of b.client.SendMessage(ctx, ...): it fails or succeeds as the
\* transport decides, and fails when ctx is already cancelled.
SenderAttempt ==
    /\ sender.pc = "send"
    /\ \E ok \in (IF ctxDone THEN {FALSE} ELSE BOOLEAN) :
          /\ sender' = [sender EXCEPT !.attempts = @ + 1,
                                      !.pc = IF ok THEN "select" ELSE "backoff"]
          /\ obs' = [op |-> IF ok THEN "delivered" ELSE "failed",
                     msg |-> sender.text]
    /\ UNCHANGED <<msgQueue, ctxDone>>
    /\ UNCHANGED notBot

\* Faulty variant: after the last wait the loop starts over instead of
\* giving the message up.
SenderBackoffElapsedStartOver ==
    /\ sender.pc = "backoff"
    /\ ~ctxDone
    /\ sender' = IF sender.i + 1 < MaxRetries
                 THEN [sender EXCEPT !.waits = Append(@, sender.backoff),
                                     !.backoff = NextBackoff(@),
                                     !.i = @ + 1,
                                     !.pc = "send"]
                 ELSE [sender EXCEPT !.waits = <<>>,
                                     !.backoff = InitialBackoff,
                                     !.i = 0,
                                     !.attempts = 0,
                                     !.pc = "send"]
    /\ obs' = [op |-> "retry", msg |-> sender.text]
    /\ UNCHANGED <<msgQueue, ctxDone>>
    /\ UNCHANGED notBot

\* Faulty variant: time.Sleep(backoff), which does not look at ctx.
SenderBackoffElapsedSleep ==
    /\ sender.pc = "backoff"
    /\ sender' = [sender EXCEPT
                    !.waits = Append(@, sender.backoff),
                    !.backoff = NextBackoff(@),
                    !.i = @ + 1,
                    !.pc = IF sender.i + 1 < MaxRetries THEN "send" ELSE "select"]
    /\ obs' = [op |-> IF sender.i + 1 < MaxRetries THEN "retry" ELSE "abandoned",
               msg |-> sender.text]
    /\ UNCHANGED <<msgQueue, ctxDone>>
    /\ UNCHANGED notBot

\* case <-time.After(backoff), then the doubling, i++ and the loop test.  A
\* context cancelled before the timer fires makes the other case win.
SenderBackoffElapsed ==
    /\ sender.pc = "backoff"
    /\ ~ctxDone
    /\ sender' = [sender EXCEPT
                    !.waits = Append(@, sender.backoff),
                    !.backoff = NextBackoff(@),
                    !.i = @ + 1,
                    !.pc = IF sender.i + 1 < MaxRetries THEN "send" ELSE "select"]
    /\ obs' = [op |-> IF sender.i + 1 < MaxRetries THEN "retry" ELSE "abandoned",
               msg |-> sender.text]
    /\ UNCHANGED <<msgQueue, ctxDone>>
    /\ UNCHANGED notBot

\* case <-ctx.Done(): return, back to the select of senderLoop.
SenderBackoffCancelled ==
    /\ sender.pc = "backoff"
    /\ ctxDone
    /\ sender' = [sender EXCEPT !.pc = "select"]
    /\ obs' = [op |-> "cancelled", msg |-> sender.text]
    /\ UNCHANGED <<msgQueue, ctxDone>>
    /\ UNCHANGED notBot

\* cancel() in main, on SIGINT or SIGTERM.
Cancel ==
    /\ ~ctxDone
    /\ ctxDone' = TRUE
    /\ obs' = [op |-> "cancel"]
    /\ UNCHANGED <<msgQueue, sender>>
    /\ UNCHANGED notBot

\* New, then Start: the channel is empty and senderLoop is at its select.
InitBot ==
    /\ msgQueue = <<>>
    /\ sender = [pc |-> "select", text |-> "none", i |-> 0,
                 backoff |-> InitialBackoff, attempts |-> 0, waits |-> <<>>]
    /\ ctxDone = FALSE
    /\ obs = [op |-> "Start"]
    /\ MgrIdle
    /\ RenderIdle
    /\ DailyIdle
    /\ ConcIdle
    /\ MeasureIdle
    /\ SysIdle
    /\ ProcIdle

NextBot ==
    \/ Send
    \/ SenderReceive
    \/ SenderReturn
    \/ SenderAttempt
    \/ SenderBackoffElapsed
    \/ SenderBackoffCancelled
    \/ Cancel

SpecBot == InitBot /\ [][NextBot]_botVars

\* ---- C14 ----
\* C14: Send is enabled in every state; a Send that finds fewer than
\* QueueCapacity messages queued appends its message at the tail, any other
\* Send leaves the queue as it is; the queue never holds more than
\* QueueCapacity messages.
C14_SendNeverBlocks ==
    /\ [](Len(msgQueue) <= QueueCapacity)
    /\ [](ENABLED Send)
    /\ [][obs'.op = "Send" =>
             /\ Len(msgQueue) < QueueCapacity =>
                   msgQueue' = msgQueue \o <<obs'.msg>>
             /\ Len(msgQueue) >= QueueCapacity => msgQueue' = msgQueue
             /\ obs'.dropped <=> Len(msgQueue) >= QueueCapacity]_botVars

\* A Send has just dropped its message on a full queue.
C14_Witness ==
    /\ obs.op = "Send"
    /\ obs.dropped
    /\ Len(msgQueue) = QueueCapacity

\* ---- C15 ----
\* C15: a message is attempted at most MaxRetries (5) times; the waits that
\* follow its failed attempts are 1, 2, 4, 8, 16 seconds in this order and
\* never above MaxBackoff (30); a success ends the attempts; after the wait
\* that follows the 5th failure the message is given up and the sender is
\* back at its select, ready for the next message.
C15_RetrySchedule ==
    /\ sender.attempts <= MaxRetries
    /\ Len(sender.waits) <= 5
    /\ \A k \in 1 .. Len(sender.waits) :
          /\ sender.waits[k] = <<1, 2, 4, 8, 16>>[k]
          /\ sender.waits[k] <= MaxBackoff
    /\ sender.pc = "send" =>
          sender.attempts = Len(sender.waits) /\ sender.attempts < MaxRetries
    /\ obs.op = "delivered" =>
          sender.pc = "select" /\ sender.attempts = Len(sender.waits) + 1
    /\ obs.op = "abandoned" =>
          /\ sender.pc = "select"
          /\ sender.attempts = 5
          /\ sender.waits = <<1, 2, 4, 8, 16>>

\* A message has just been given up after five failures while another one
\* is queued.
C15_Witness ==
    /\ obs.op = "abandoned"
    /\ sender.attempts = 5
    /\ msgQueue # <<>>

\* ---- C17 ----
\* C17: once the context is cancelled while a message waits out its backoff,
\* the next step of the sender leaves the wait without completing it and
\* makes no further attempt for that message.
C17_CancelEndsBackoff ==
    [][(sender.pc = "backoff" /\ ctxDone) =>
          /\ sender'.pc \in {"backoff", "select"}
          /\ sender'.attempts = sender.attempts
          /\ sender'.waits = sender.waits]_botVars

\* The wait after the second failed attempt has just been cut short.
C17_Witness ==
    /\ obs.op = "cancelled"
    /\ ctxDone
    /\ sender.attempts = 2
    /\ sender.waits = <<1>>
    /\ sender.pc = "select"

\* ======================================================================
\* Summary.String (package stats).  The text is the sequence of its lines;
\* a line keeps the values it prints.  An event line prints the event's
\* time of day, which a whole number of days does not have, and its
\* download, upload and ping.
\* ======================================================================

\* ---- bounds of the model ----
\* The longest history whose Summary is rendered.
MaxReport == 6

\* ---- program constants ----
\* if count >= 5
MaxListed == 5

EventLine(e) ==
    [line |-> "event", download |-> e.Download, upload |-> e.Upload,
     ping |-> e.Ping]

\* Faulty variant: the marker is written only past the sixth event.
RECURSIVE EventLinesLate(_, _, _)
EventLinesLate(events, i, count) ==
    IF i < 1 THEN <<>>
    ELSE IF count > MaxListed THEN <<[line |-> "more"]>>
    ELSE <<EventLine(events[i])>> \o EventLinesLate(events, i - 1, count + 1)

\* for i := len(s.LowSpeedEvents) - 1; i >= 0; i-- { ... }, with the slice
\* indexed from 1.
RECURSIVE EventLines(_, _, _)
EventLines(events, i, count) ==
    IF i < 1 THEN <<>>
    ELSE IF count >= MaxListed THEN <<[line |-> "more"]>>
    ELSE <<EventLine(events[i])>> \o EventLines(events, i - 1, count + 1)

String(s) ==
    <<[line |-> "title"], [line |-> "tests", n |-> s.TotalTests]>>
    \o (IF s.TotalTests > 0
        THEN <<[line |-> "alerts", n |-> s.AlertsCount],
               [line |-> "download", avg |-> s.AvgDownload,
                min |-> s.MinDownload, max |-> s.MaxDownload],
               [line |-> "upload", avg |-> s.AvgUpload,
                min |-> s.MinUpload, max |-> s.MaxUpload],
               [line |-> "ping", avg |-> s.AvgPing,
                min |-> s.MinPing, max |-> s.MaxPing]>>
        ELSE <<>>)
    \o (IF Len(s.LowSpeedEvents) > 0
        THEN <<[line |-> "events"]>>
             \o EventLines(s.LowSpeedEvents, Len(s.LowSpeedEvents), 0)
        ELSE <<>>)

\* The records of the histories that are summarised and rendered: low on
\* download, low on upload, and at both thresholds, all inside the window.
ReportRecords ==
    {[Time |-> Window, Download |-> d, Upload |-> u, Ping |-> MaxPing,
      Error |-> FALSE, AlertSent |-> FALSE] :
        d \in {MaxMbps - 1, MaxMbps}, u \in {MaxMbps - 1, MaxMbps}}
    \ {[Time |-> Window, Download |-> MaxMbps - 1, Upload |-> MaxMbps - 1,
        Ping |-> MaxPing, Error |-> FALSE, AlertSent |-> FALSE]}

ReportHistories ==
    UNION {[1 .. n -> ReportRecords] : n \in 0 .. MaxReport}

\* A Summary as getStats and dailyReportLoop obtain it.
InitRender ==
    /\ \E h \in ReportHistories :
          render = [pc |-> "call",
                    s |-> Summarize(h, Window, MaxMbps, MaxMbps)]
    /\ MgrIdle
    /\ BotIdle
    /\ DailyIdle
    /\ ConcIdle
    /\ MeasureIdle
    /\ SysIdle
    /\ ProcIdle

RenderString ==
    /\ render.pc = "call"
    /\ render' = [pc |-> "done", s |-> render.s, out |-> String(render.s)]
    /\ UNCHANGED notRender

NextRender == RenderString

SpecRender == InitRender /\ [][NextRender]_renderVars

\* ---- C20 ----
\* C20: the text lists the min(5, n) most recent of the n low-speed events,
\* most recent first, followed by the '...and more' line exactly when n > 5;
\* with n = 0 it has no low-speed section, and with TotalTests = 0 it has no
\* per-metric line.
C20_ReportListsLastFive ==
    render.pc = "done" =>
       LET ev == render.s.LowSpeedEvents
           n == Len(ev)
           shown == IF n < 5 THEN n ELSE 5
           listed == SelectSeq(render.out, LAMBDA l : l.line = "event")
           tail == SelectSeq(render.out,
                             LAMBDA l : l.line \in {"events", "event", "more"})
           Has(kind) == \E k \in 1 .. Len(render.out) : render.out[k].line = kind
       IN  /\ Len(listed) = shown
           /\ \A k \in 1 .. shown :
                 /\ listed[k].download = ev[n + 1 - k].Download
                 /\ listed[k].upload = ev[n + 1 - k].Upload
                 /\ listed[k].ping = ev[n + 1 - k].Ping
           /\ Has("more") <=> n > 5
           /\ Has("more") => render.out[Len(render.out)].line = "more"
           /\ n = 0 => tail = <<>>
           /\ n > 0 => tail[1].line = "events"
           /\ render.s.TotalTests = 0 =>
                 ~(Has("alerts") \/ Has("download") \/ Has("upload") \/ Has("ping"))

\* Six low-speed events, the oldest two of different kinds: five are listed
\* and the marker follows.
C20_Witness ==
    /\ render.pc = "done"
    /\ Len(render.s.LowSpeedEvents) = 6
    /\ render.s.LowSpeedEvents[1] # render.s.LowSpeedEvents[2]
    /\ render.s.LowSpeedEvents[5] # render.s.LowSpeedEvents[6]
    /\ render.out[Len(render.out)].line = "more"

\* ======================================================================
\* dailyReportLoop (package main).  Instants are whole minutes on the
\* absolute time line; the configured zone reads local time as the instant
\* plus its offset, and its offset changes once, at SwitchAt, by the zone's
\* shift: an hour back when summer time ends, an hour forward when it
\* begins, nothing in a zone without summer time.
\* ======================================================================

\* ---- bounds of the model ----
\* The loop schedules no further report once the clock has passed this many
\* days.
MaxDays == 3

\* ---- units and program constants ----
Minute == 1
Hour == 60
Day == 24 * Hour

\* cfg.DailyReportHour
ReportHours == {8, 20}

\* cfg.TimeZone, by the change of its offset at SwitchAt.
Shifts == {0 - Hour, 0, Hour}

\* The zone changes its offset in the night that ends the first day.
SwitchAt == Day + 3 * Hour

\* The process starts on the first day, on the hour or half past.
Starts == {h * Hour + m : h \in 0 .. 23, m \in {0, 30}}

Offset(shift, t) == IF t >= SwitchAt THEN shift ELSE 0

\* t.In(loc): the local reading of an instant.
Local(shift, t) == t + Offset(shift, t)

LocalDay(shift, t) == Local(shift, t) \div Day

\* time.Date(y, m, d, hour, 0, 0, 0, loc): the instant that reads hour:00 on
\* local day d.
Date(shift, d, hour) ==
    LET wall == d * Day + hour * Hour
    IN  IF wall < SwitchAt THEN wall ELSE wall - shift

\* nextReport := time.Date(today, hour); if nextReport.Before(now) {
\* nextReport = nextReport.Add(24 * time.Hour) }
NextReport(shift, hour, now) ==
    LET today == Date(shift, LocalDay(shift, now), hour)
    IN  IF today < now THEN today + 24 * Hour ELSE today

InitDaily ==
    /\ \E hour \in ReportHours, shift \in Shifts, start \in Starts :
          daily = [pc |-> "schedule", hour |-> hour, shift |-> shift,
                   start |-> start, clock |-> start, nextReport |-> 0,
                   sent |-> <<>>, cancelled |-> FALSE]
    /\ MgrIdle
    /\ BotIdle
    /\ RenderIdle
    /\ ConcIdle
    /\ MeasureIdle
    /\ SysIdle
    /\ ProcIdle

\* The head of the loop: read the clock and compute the next report.
DailySchedule ==
    /\ daily.pc = "schedule"
    /\ daily.clock < MaxDays * Day
    /\ daily' = [daily EXCEPT
          !.pc = "select",
          !.nextReport = NextReport(daily.shift, daily.hour, daily.clock)]
    /\ UNCHANGED notDaily

\* case <-ctx.Done(): return
DailyDone ==
    /\ daily.pc = "select"
    /\ daily.cancelled
    /\ daily' = [daily EXCEPT !.pc = "returned"]
    /\ UNCHANGED notDaily

\* case <-time.After(wait): the timer fires at nextReport; the report is
\* submitted with bot.Send.  With the context cancelled only a timer that
\* has already fired can be chosen.
DailyReport ==
    /\ daily.pc = "select"
    /\ ~daily.cancelled \/ daily.clock >= daily.nextReport
    /\ LET at == IF daily.clock >= daily.nextReport THEN daily.clock
                 ELSE daily.nextReport
       IN  daily' = [daily EXCEPT !.pc = "sleep", !.clock = at,
                                  !.sent = Append(daily.sent, at)]
    /\ UNCHANGED notDaily

\* time.Sleep(1 * time.Minute)
DailySleep ==
    /\ daily.pc = "sleep"
    /\ daily' = [daily EXCEPT !.pc = "schedule",
                              !.clock = daily.clock + Minute]
    /\ UNCHANGED notDaily

\* cancel() in main; while the loop waits, it comes either now or at the
\* instant the timer fires.
DailyCancel ==
    /\ ~daily.cancelled
    /\ daily.pc \in {"schedule", "select", "sleep"}
    /\ \E at \in {daily.clock} \cup
                 (IF daily.pc = "select" /\ daily.nextReport > daily.clock
                  THEN {daily.nextReport} ELSE {}) :
          daily' = [daily EXCEPT !.cancelled = TRUE, !.clock = at]
    /\ UNCHANGED notDaily

NextDaily ==
    DailySchedule \/ DailyDone \/ DailyReport \/ DailySleep \/ DailyCancel

SpecDaily == InitDaily /\ [][NextDaily]_dailyVars

\* The first instant at or after t that reads hour:00 in the zone.
NextOccurrence(shift, hour, t) ==
    LET today == Date(shift, LocalDay(shift, t), hour)
    IN  IF today >= t THEN today ELSE Date(shift, LocalDay(shift, t) + 1, hour)

\* Every report so far was submitted at hour:00 local time, the first one at
\* the first such instant after startup, and each on the day after the one
\* before it.
OnePerDayAtHour ==
    /\ \A k \in 1 .. Len(daily.sent) :
          Local(daily.shift, daily.sent[k]) % Day = daily.hour * Hour
    /\ Len(daily.sent) > 0 =>
          daily.sent[1] = NextOccurrence(daily.shift, daily.hour, daily.start)
    /\ \A k \in 1 .. Len(daily.sent) - 1 :
          LocalDay(daily.shift, daily.sent[k + 1])
             = LocalDay(daily.shift, daily.sent[k]) + 1

\* ---- C19 ----
\* C19: every report is submitted at the configured hour of day in the
\* configured zone; the first one at the next occurrence of that hour after
\* startup; consecutive reports fall on consecutive days, so no day has two;
\* and once the loop has observed cancellation no report is submitted.
C19_OneReportPerDayAtHour ==
    /\ [](daily.pc # "idle" => OnePerDayAtHour)
    /\ [][daily.pc = "returned" => daily'.sent = daily.sent]_dailyVars

\* The same statement for a zone whose offset never changes.
C19_FixedOffsetZone ==
    /\ [](daily.pc # "idle" /\ daily.shift = 0 => OnePerDayAtHour)
    /\ [][daily.pc = "returned" => daily'.sent = daily.sent]_dailyVars

\* Summer time ends in the night after startup: two reports on one day.
C19_TwoReportsOneDay ==
    /\ daily.pc # "idle"
    /\ daily.shift = 0 - Hour
    /\ \E k \in 1 .. Len(daily.sent) - 1 :
          LocalDay(daily.shift, daily.sent[k + 1])
             = LocalDay(daily.shift, daily.sent[k])

\* ======================================================================
\* The Manager under concurrent callers.  Add holds m.mu for writing from
\* its first statement to its return, GetLast24hSummary holds it for reading
\* in the same way.  An Add is a sequence of steps: the append and the trim
\* are separate assignments to m.results.
\*
\* sync.RWMutex: Lock first takes the writers' inner mutex and announces
\* itself, which stops new readers, then waits for the active readers to
\* leave; RLock succeeds unless a writer has announced itself; Unlock admits
\* the readers that arrived meanwhile and releases the inner mutex.
\* ======================================================================

Writers == {"w1", "w2"}

Readers == {"r1", "r2"}

\* The records the writers add: one valid, one failed, inside the window.
ConcRecords ==
    {[Time |-> Window, Download |-> MaxMbps, Upload |-> MaxMbps,
      Ping |-> MaxPing, Error |-> e, AlertSent |-> FALSE] : e \in BOOLEAN}

\* The arguments of every summary call.
ConcNow == Window

\* Faulty variant: a reader does not look for a writer.
CanRLockAlways(m) == TRUE

\* RLock succeeds at once unless a writer holds or waits for the lock.
CanRLock(m) == m.w = "none"

\* NewManager(n) shared by two adding and two summarising tasks.
InitConc ==
    /\ \E n \in Capacities :
          /\ results = NewManager(n).results
          /\ maxSize = NewManager(n).maxSize
    /\ call = [op |-> "none"]
    /\ mu = [w |-> "none", held |-> FALSE, readers |-> {}, blocked |-> {}]
    /\ task = [t \in Writers \cup Readers |-> [pc |-> "start"]]
    /\ versions = <<results>>
    /\ BotIdle
    /\ RenderIdle
    /\ DailyIdle
    /\ MeasureIdle
    /\ SysIdle
    /\ ProcIdle

\* Add is called with a record; m.mu.Lock() begins.
AddCall(t) ==
    /\ t \in Writers
    /\ task[t].pc = "start"
    /\ \E r \in ConcRecords :
          task' = [task EXCEPT ![t] = [pc |-> "lock", r |-> r]]
    /\ UNCHANGED <<results, maxSize, mu, versions>>
    /\ UNCHANGED notConc

\* Lock: the inner mutex is free; the writer announces itself.
AddAnnounce(t) ==
    /\ t \in Writers
    /\ task[t].pc = "lock"
    /\ mu.w = "none"
    /\ mu' = [mu EXCEPT !.w = t]
    /\ task' = [task EXCEPT ![t].pc = "drain"]
    /\ UNCHANGED <<results, maxSize, versions>>
    /\ UNCHANGED notConc

\* Lock returns once the active readers have left.
AddLocked(t) ==
    /\ t \in Writers
    /\ task[t].pc = "drain"
    /\ mu.readers = {}
    /\ mu' = [mu EXCEPT !.held = TRUE]
    /\ task' = [task EXCEPT ![t].pc = "append"]
    /\ UNCHANGED <<results, maxSize, versions>>
    /\ UNCHANGED notConc

\* m.results = append(m.results, r)
AddAppend(t) ==
    /\ t \in Writers
    /\ task[t].pc = "append"
    /\ results' = Append(results, task[t].r)
    /\ task' = [task EXCEPT ![t].pc = "trim"]
    /\ UNCHANGED <<maxSize, mu, versions>>
    /\ UNCHANGED notConc

\* if len(m.results) > m.maxSize { m.results = m.results[len-maxSize:] }
AddTrim(t) ==
    /\ t \in Writers
    /\ task[t].pc = "trim"
    /\ results' = IF Len(results) > maxSize
                  THEN SubSeq(results, Len(results) - maxSize + 1, Len(results))
                  ELSE results
    /\ task' = [task EXCEPT ![t].pc = "unlock"]
    /\ UNCHANGED <<maxSize, mu, versions>>
    /\ UNCHANGED notConc

\* The deferred m.mu.Unlock(): the Add is complete, and the readers that
\* were held back become active.
AddUnlock(t) ==
    /\ t \in Writers
    /\ task[t].pc = "unlock"
    /\ mu' = [w |-> "none", held |-> FALSE, readers |-> mu.blocked,
              blocked |-> {}]
    /\ task' = [u \in Writers \cup Readers |->
                  IF u = t THEN [pc |-> "done"]
                  ELSE IF u \in mu.blocked THEN [task[u] EXCEPT !.pc = "read"]
                  ELSE task[u]]
    /\ versions' = Append(versions, results)
    /\ UNCHANGED <<results, maxSize>>
    /\ UNCHANGED notConc

\* GetLast24hSummary is called; m.mu.RLock() succeeds or holds the caller
\* back.  from is the number of Adds complete at the call.
SummaryCall(t) ==
    /\ t \in Readers
    /\ task[t].pc = "start"
    /\ IF CanRLock(mu)
       THEN /\ mu' = [mu EXCEPT !.readers = mu.readers \cup {t}]
            /\ task' = [task EXCEPT ![t] = [pc |-> "read",
                                            from |-> Len(versions) - 1]]
       ELSE /\ mu' = [mu EXCEPT !.blocked = mu.blocked \cup {t}]
            /\ task' = [task EXCEPT ![t] = [pc |-> "blocked",
                                            from |-> Len(versions) - 1]]
    /\ UNCHANGED <<results, maxSize, versions>>
    /\ UNCHANGED notConc

\* for _, r := range m.results: the slice is read once.
SummaryRead(t) ==
    /\ t \in Readers
    /\ task[t].pc = "read"
    /\ task' = [task EXCEPT ![t] = [pc |-> "compute", from |-> task[t].from,
                                    seen |-> results]]
    /\ UNCHANGED <<results, maxSize, mu, versions>>
    /\ UNCHANGED notConc

\* The summary is computed and returned; the deferred m.mu.RUnlock() runs.
\* upto is the number of Adds complete at the return.
SummaryReturn(t) ==
    /\ t \in Readers
    /\ task[t].pc = "compute"
    /\ mu' = [mu EXCEPT !.readers = mu.readers \ {t}]
    /\ task' = [task EXCEPT ![t] =
                  [pc |-> "done", from |-> task[t].from,
                   upto |-> Len(versions) - 1, seen |-> task[t].seen,
                   out |-> Summarize(task[t].seen, ConcNow, MaxMbps, MaxMbps)]]
    /\ UNCHANGED <<results, maxSize, versions>>
    /\ UNCHANGED notConc

ConcAdd ==
    \E t \in Writers :
       \/ AddCall(t) \/ AddAnnounce(t) \/ AddLocked(t)
       \/ AddAppend(t) \/ AddTrim(t) \/ AddUnlock(t)

ConcSummary ==
    \E t \in Readers : SummaryCall(t) \/ SummaryRead(t) \/ SummaryReturn(t)

NextConc == ConcAdd \/ ConcSummary

SpecConc == InitConc /\ [][NextConc]_concVars

\* ---- C18 ----
\* C18: every Summary returned is the summary of the history as it stood
\* after some whole number of completed Adds, a number between the one at
\* the call and the one at the return; no summary reads the history between
\* an Add's append and its trim; and a summary call made while no writer
\* holds or waits for the lock proceeds at once, whichever summaries are
\* running.
C18_SummariesLinearizable ==
    /\ [](\A t \in Readers :
            /\ task[t].pc = "done" =>
                  \E k \in task[t].from .. task[t].upto :
                     task[t].out = Summarize(versions[k + 1], ConcNow,
                                             MaxMbps, MaxMbps)
            /\ task[t].pc \in {"read", "compute"} =>
                  \A w \in Writers : task[w].pc \notin {"append", "trim", "unlock"}
            /\ task[t].pc \in {"compute", "done"} =>
                  Len(task[t].seen) <= maxSize)
    /\ [][\A t \in Readers :
            (task[t].pc = "start" /\ task'[t].pc # "start" /\ mu.w = "none")
               => task'[t].pc = "read"]_concVars

\* Two summaries run at the same time while a writer waits for them; one of
\* them was called during the first Add and admitted when it completed.
C18_Witness ==
    /\ Cardinality(mu.readers) = 2
    /\ \E w \in Writers : task[w].pc = "drain"
    /\ Len(versions) = 2
    /\ \E t \in Readers : task[t].from = 0

\* ======================================================================
\* The test-and-record cycle (package main, runTest) with the measurement
\* routine (package speed, Runner.Run and executeCheck), started by three
\* triggers: the ticker case of main's loop, the startup goroutine and the
\* handler of a /test request.  main cancels the context when the signal
\* arrives, which it can only take while it waits in its select, and exits
\* a second later; nothing runs after that.
\*
\* The clock is logical: every reading of time.Now() that ends up in a
\* record is later than the one before it, and 0 is the zero time.Time.
\* History is the Manager's results, kept by Add as modelled above; Add is
\* one step here, its lock being the subject of SpecConc.
\* ======================================================================

\* ---- bounds of the model ----
\* The number of ticks main's loop takes.
MaxTicks == 1

\* ---- program constants ----
\* for i := 0; i < 3; i++
MaxAttempts == 3

Triggers == {"ticker", "startup", "manual"}

\* cfg.DownloadThreshold and cfg.UploadThreshold.
CfgDownloadThreshold == MaxMbps
CfgUploadThreshold == MaxMbps

\* var result stats.Result
ZeroResult ==
    [Time |-> 0, Download |-> 0, Upload |-> 0, Ping |-> 0,
     Error |-> FALSE, AlertSent |-> FALSE]

\* How executeCheck ends: the stage that fails, or "ok".
Outcomes ==
    {"userinfo", "serverlist", "findserver", "ping", "download", "upload",
     "ok"}

\* The Result executeCheck returns: res.Time at its start, and each
\* measurement assigned once its stage has succeeded.
ExecuteCheckResult(now, outcome, ping, dl, ul) ==
    [Time |-> now,
     Ping |-> IF outcome \in {"download", "upload", "ok"} THEN ping ELSE 0,
     Download |-> IF outcome \in {"upload", "ok"} THEN dl ELSE 0,
     Upload |-> IF outcome = "ok" THEN ul ELSE 0,
     Error |-> FALSE, AlertSent |-> FALSE]

\* Faulty variant: Lock does not wait for the holder.
LockFreeAlways(m) == TRUE

\* testMu.Lock() returns when nobody holds the mutex.
LockFree(m) == m = "none"

Running == main.pc # "exited"

InitMeasure ==
    /\ \E n \in Capacities :
          /\ results = NewManager(n).results
          /\ maxSize = NewManager(n).maxSize
    /\ call = [op |-> "none"]
    /\ testMu = "none"
    /\ trigger = [t \in Triggers |->
                    [pc |-> IF t = "startup" THEN "sleep5" ELSE "idle",
                     i |-> 0, result |-> ZeroResult, err |-> FALSE,
                     exit |-> "none", msg |-> ""]]
    /\ ctxErr = FALSE
    /\ clock = 0
    /\ main = [pc |-> "select", ticks |-> 0]
    /\ BotIdle
    /\ RenderIdle
    /\ DailyIdle
    /\ ConcIdle
    /\ SysIdle
    /\ ProcIdle

\* case <-ticker.C: main calls runTest(ctx, false).
MainTick ==
    /\ main.pc = "select"
    /\ main.ticks < MaxTicks
    /\ trigger["ticker"].pc = "idle"
    /\ main' = [main EXCEPT !.ticks = main.ticks + 1]
    /\ trigger' = [trigger EXCEPT !["ticker"].pc = "lock"]
    /\ UNCHANGED <<results, maxSize, testMu, ctxErr, clock>>
    /\ UNCHANGED notMeasure

\* The startup goroutine's five seconds are over: runTest(ctx, false).
StartupWake ==
    /\ Running
    /\ trigger["startup"].pc = "sleep5"
    /\ trigger' = [trigger EXCEPT !["startup"].pc = "lock"]
    /\ UNCHANGED <<results, maxSize, testMu, ctxErr, clock, main>>
    /\ UNCHANGED notMeasure

\* testHandler: a /test request arrives while the bot still polls; the
\* handler calls runTest(ctx, true).
ManualRequest ==
    /\ Running
    /\ ~ctxErr
    /\ trigger["manual"].pc = "idle"
    /\ trigger' = [trigger EXCEPT !["manual"].pc = "lock"]
    /\ UNCHANGED <<results, maxSize, testMu, ctxErr, clock, main>>
    /\ UNCHANGED notMeasure

\* testMu.Lock(), then Run's declarations.
RunTestLock(t) ==
    /\ Running
    /\ trigger[t].pc = "lock"
    /\ LockFree(testMu)
    /\ testMu' = t
    /\ trigger' = [trigger EXCEPT ![t] =
                     [pc |-> "loop", i |-> 0, result |-> ZeroResult,
                      err |-> FALSE, exit |-> "none", msg |-> ""]]
    /\ UNCHANGED <<results, maxSize, ctxErr, clock, main>>
    /\ UNCHANGED notMeasure

\* The head of Run's loop: leave after the third attempt with the error and
\* a fresh time; return at once when the context is cancelled; wait before
\* a retry.
RunLoop(t) ==
    /\ Running
    /\ trigger[t].pc = "loop"
    /\ IF trigger[t].i >= MaxAttempts
       THEN /\ clock' = clock + 1
            /\ trigger' = [trigger EXCEPT
                  ![t].result = [trigger[t].result EXCEPT
                                    !.Error = trigger[t].err,
                                    !.Time = clock + 1],
                  ![t].exit = "gaveup",
                  ![t].pc = "measured"]
       ELSE /\ clock' = clock
            /\ trigger' = [trigger EXCEPT
                  ![t].result = IF ctxErr
                                THEN [trigger[t].result EXCEPT !.Error = TRUE]
                                ELSE trigger[t].result,
                  ![t].exit = IF ctxErr THEN "cancelled" ELSE "none",
                  ![t].pc = IF ctxErr THEN "measured"
                            ELSE IF trigger[t].i > 0 THEN "sleep"
                            ELSE "exec"]
    /\ UNCHANGED <<results, maxSize, testMu, ctxErr, main>>
    /\ UNCHANGED notMeasure

\* time.Sleep(5 * time.Second) returns.
RunSleep(t) ==
    /\ Running
    /\ trigger[t].pc = "sleep"
    /\ trigger' = [trigger EXCEPT ![t].pc = "exec"]
    /\ UNCHANGED <<results, maxSize, testMu, ctxErr, clock, main>>
    /\ UNCHANGED notMeasure

\* result, err = r.executeCheck(ctx): one attempt.  With the context
\* already cancelled the first request fails.
ExecuteCheck(t) ==
    /\ Running
    /\ trigger[t].pc = "exec"
    /\ \E outcome \in (IF ctxErr THEN {"userinfo"} ELSE Outcomes),
          dl \in Mbps, ul \in Mbps :
          trigger' = [trigger EXCEPT
             ![t].result = ExecuteCheckResult(clock + 1, outcome, MaxPing,
                                              dl, ul),
             ![t].err = outcome # "ok",
             ![t].i = IF outcome = "ok" THEN trigger[t].i
                      ELSE trigger[t].i + 1,
             ![t].exit = IF outcome = "ok" THEN "ok" ELSE "none",
             ![t].pc = IF outcome = "ok" THEN "measured" ELSE "loop"]
    /\ clock' = clock + 1
    /\ UNCHANGED <<results, maxSize, testMu, ctxErr, main>>
    /\ UNCHANGED notMeasure

\* runTest after Run: the threshold check and statsMgr.Add(res).
RunTestAdd(t) ==
    /\ Running
    /\ trigger[t].pc = "measured"
    /\ LET res == trigger[t].result
           manual == t = "manual"
           alertTriggered ==
              /\ ~res.Error
              /\ ~manual
              /\ \/ res.Download < CfgDownloadThreshold
                 \/ res.Upload < CfgUploadThreshold
           stored == [res EXCEPT !.AlertSent = alertTriggered]
       IN  /\ results' = AddResults(results, stored, maxSize)
           /\ trigger' = [trigger EXCEPT
                 ![t].result = stored,
                 ![t].msg = IF alertTriggered THEN "alert"
                            ELSE IF manual THEN "manual" ELSE "",
                 ![t].pc = "recorded"]
    /\ UNCHANGED <<maxSize, testMu, ctxErr, clock, main>>
    /\ UNCHANGED notMeasure

\* The deferred testMu.Unlock(); runTest returns msg and its locals are gone.
RunTestUnlock(t) ==
    /\ Running
    /\ trigger[t].pc = "recorded"
    /\ testMu' = "none"
    /\ trigger' = [trigger EXCEPT ![t] =
                     [pc |-> "returned", i |-> 0, result |-> ZeroResult,
                      err |-> FALSE, exit |-> "none",
                      msg |-> trigger[t].msg]]
    /\ UNCHANGED <<results, maxSize, ctxErr, clock, main>>
    /\ UNCHANGED notMeasure

\* The caller takes the message: the ticker case goes back to the select,
\* the startup goroutine and the handler end.
TriggerDone(t) ==
    /\ Running
    /\ trigger[t].pc = "returned"
    /\ trigger' = [trigger EXCEPT
          ![t].pc = IF t = "ticker" THEN "idle" ELSE "done",
          ![t].msg = ""]
    /\ UNCHANGED <<results, maxSize, testMu, ctxErr, clock, main>>
    /\ UNCHANGED notMeasure

\* case <-sigChan: cancel()
MainSignal ==
    /\ main.pc = "select"
    /\ trigger["ticker"].pc = "idle"
    /\ ctxErr' = TRUE
    /\ main' = [main EXCEPT !.pc = "grace"]
    /\ UNCHANGED <<results, maxSize, testMu, trigger, clock>>
    /\ UNCHANGED notMeasure

\* time.Sleep(1 * time.Second); return
MainExit ==
    /\ main.pc = "grace"
    /\ main' = [main EXCEPT !.pc = "exited"]
    /\ UNCHANGED <<results, maxSize, testMu, trigger, ctxErr, clock>>
    /\ UNCHANGED notMeasure

Cycle ==
    \E t \in Triggers :
       \/ RunTestLock(t) \/ RunLoop(t) \/ RunSleep(t) \/ ExecuteCheck(t)
       \/ RunTestAdd(t) \/ RunTestUnlock(t) \/ TriggerDone(t)

NextMeasure ==
    MainTick \/ StartupWake \/ ManualRequest \/ Cycle \/ MainSignal \/ MainExit

SpecMeasure == InitMeasure /\ [][NextMeasure]_measVars

\* A trigger is inside its test-and-record cycle: between the return of
\* Lock and the Unlock that follows Add.
InFlight(t) ==
    trigger[t].pc \in {"loop", "sleep", "exec", "measured", "recorded"}

\* ---- C11 ----
\* C11: at most one trigger is inside a test-and-record cycle; a trigger
\* enters only when no other is measuring or has yet to append its record,
\* and whoever is inside holds testMu.
C11_OneMeasurementInFlight ==
    /\ [](\A t \in Triggers :
            InFlight(t) =>
               /\ testMu = t
               /\ \A u \in Triggers \ {t} : ~InFlight(u))
    /\ [][\A t \in Triggers :
            (trigger[t].pc = "lock" /\ trigger'[t].pc = "loop") =>
               \A u \in Triggers \ {t} : ~InFlight(u)]_measVars

\* One trigger is in an attempt, the two others wait for the mutex.
C11_Witness ==
    \E t \in Triggers :
       /\ trigger[t].pc = "exec"
       /\ \A u \in Triggers \ {t} : trigger[u].pc = "lock"

\* ---- C12 ----
\* C12: the records of the history are in chronological order: a record
\* inserted earlier has a timestamp not later than one inserted later.
C12_HistoryChronological ==
    \A j \in 1 .. Len(results) : \A k \in 1 .. Len(results) :
       j < k => results[j].Time <= results[k].Time

\* A cycle that began after the cancellation has appended the record Run
\* returns at its first check, whose Time was never assigned, behind a
\* record with a real timestamp.
C12_ZeroTimeBehindStamped ==
    /\ Len(results) = 2
    /\ results[1].Time > 0
    /\ results[2].Time = 0
    /\ results[2].Error

\* ---- C13 ----
\* C13: when Run gives up after three failed attempts, the record it returns
\* has its error set and download and upload both zero.
C13_GiveUpRecordIsEmpty ==
    \A t \in Triggers :
       (trigger[t].pc = "measured" /\ trigger[t].exit = "gaveup") =>
          /\ trigger[t].result.Error
          /\ trigger[t].result.Download = 0
          /\ trigger[t].result.Upload = 0

\* Run has given up after an attempt whose upload stage failed: the record
\* carries the error and the download that was measured.
C13_GiveUpKeepsDownload ==
    \E t \in Triggers :
       /\ trigger[t].pc = "measured"
       /\ trigger[t].exit = "gaveup"
       /\ trigger[t].result.Error
       /\ trigger[t].result.Download > 0

\* ---- C16 ----
\* C16: once the context is cancelled after a failed attempt, also during
\* the wait before the retry, Run starts no further attempt, and the record
\* it returns on cancellation has its error set.
C16_CancelStopsAttempts ==
    /\ [](\A t \in Triggers :
            (trigger[t].pc = "measured" /\ trigger[t].exit = "cancelled") =>
               trigger[t].result.Error)
    /\ [][\A t \in Triggers :
            (ctxErr /\ trigger[t].i > 0 /\ trigger[t].pc = "exec") =>
               trigger'[t].pc = "exec"]_measVars

\* The context was cancelled during the wait: Run is about to start its
\* next attempt with the context cancelled.
C16_AttemptAfterCancel ==
    \E t \in Triggers :
       /\ ctxErr
       /\ trigger[t].i > 0
       /\ trigger[t].pc = "exec"
       /\ ENABLED ExecuteCheck(t)

\* ======================================================================
\* Further properties of the Manager (Spec).
\* ======================================================================

\* ---- C23 ----
\* C23: LowSpeedEvents is exactly the subsequence, in insertion order, of the
\* in-window records without an error whose download is strictly below the
\* download threshold or whose upload is strictly below the upload
\* threshold; the AlertSent flag plays no part, and a record at both
\* thresholds is not an event.
C23_LowSpeedEventsSubsequence ==
    IsSummaryCall =>
       call.ret.LowSpeedEvents =
          SelectSeq(results,
                    LAMBDA r : /\ r.Time > call.now - Window
                               /\ ~r.Error
                               /\ \/ r.Download < call.dlThreshold
                                  \/ r.Upload < call.ulThreshold)

\* Two different valid low records in the window, the older one flagged and
\* the newer one not: both are events, the older first.
C23_Witness ==
    /\ IsSummaryCall
    /\ Len(results) = 2
    /\ InWindow(results, call.now) = {1, 2}
    /\ ~results[1].Error /\ ~results[2].Error
    /\ results[1].AlertSent /\ ~results[2].AlertSent
    /\ results[1].Download < call.dlThreshold
    /\ results[2].Download >= call.dlThreshold
    /\ results[2].Upload < call.ulThreshold
    /\ call.ret.LowSpeedEvents = <<results[1], results[2]>>

\* A flagged valid record exactly at both thresholds is not an event.
C23_AtThresholdIsNoEvent ==
    /\ IsSummaryCall
    /\ Len(results) = 1
    /\ InWindow(results, call.now) = {1}
    /\ ~results[1].Error /\ results[1].AlertSent
    /\ results[1].Download = call.dlThreshold
    /\ results[1].Upload = call.ulThreshold
    /\ call.ret.LowSpeedEvents = <<>>

\* ======================================================================
\* The running system, one step per handler: the ticker case of main's
\* loop, the startup goroutine and the /test handler each run runTest to
\* its end (testMu lets only one of them be inside, see SpecMeasure) and
\* then hand over what it returned; the /stats handler and the daily report
\* take a summary with the configured thresholds.  Time is counted in the
\* units of the Manager's window, as in Spec.
\* ======================================================================

\* The value of cancel in a script when the context stays live.
CancelNever == MaxAttempts + 1

\* What one executeCheck does, up to what it leaves in its result.
Attempts ==
    {a \in [outcome : Outcomes, dl : Mbps, ul : Mbps] :
        /\ a.outcome \notin {"upload", "ok"} => a.dl = 0
        /\ a.outcome # "ok" => a.ul = 0}

\* What happens during one call of Run: the attempts before the n-th fail in
\* their first request (Run overwrites result with every attempt, so they
\* leave nothing behind), the n-th and any later one end as last says, and
\* the context is cancelled from the cancel-th check at the head of the loop
\* on; cancel = MaxAttempts is a cancellation Run no longer looks for.
Scripts == [n : 1 .. MaxAttempts, last : Attempts, cancel : 0 .. CancelNever]

AttemptOf(script, i) ==
    IF i + 1 < script.n
    THEN [outcome |-> "userinfo", dl |-> 0, ul |-> 0]
    ELSE script.last

\* Runner.Run from iteration i on, under a script.
RECURSIVE RunScript(_, _, _, _, _)
RunScript(i, result, err, script, now) ==
    IF i >= MaxAttempts
    THEN [result EXCEPT !.Error = err, !.Time = now]
    ELSE IF i >= script.cancel
    THEN [result EXCEPT !.Error = TRUE]
    ELSE LET a == AttemptOf(script, i)
             res == ExecuteCheckResult(now, a.outcome, MaxPing, a.dl, a.ul)
         IN  IF a.outcome = "ok" THEN res
             ELSE RunScript(i + 1, res, TRUE, script, now)

Run(script, now) == RunScript(0, ZeroResult, FALSE, script, now)

\* What calls of Run under the given scripts can return at time now, each
\* with whether the context is cancelled by the time the caller goes on.
RunReturns(scripts, now) ==
    {[res |-> Run(script, now), cancelled |-> script.cancel # CancelNever] :
        script \in scripts}

\* Faulty variant: a manual test below a threshold is flagged too.
AlertTriggeredManualToo(res, manual) ==
    /\ ~res.Error
    /\ \/ res.Download < CfgDownloadThreshold
       \/ res.Upload < CfgUploadThreshold

\* Faulty variant: every valid scheduled test is flagged.
AlertTriggeredNoThreshold(res, manual) ==
    /\ ~res.Error
    /\ ~manual

\* Faulty variant: only the download is compared.
AlertTriggeredDownloadOnly(res, manual) ==
    /\ ~res.Error
    /\ ~manual
    /\ res.Download < CfgDownloadThreshold

\* if res.Error == nil && !manual { if res.Download < cfg.DownloadThreshold
\* || res.Upload < cfg.UploadThreshold { alertTriggered = true } }
AlertTriggered(res, manual) ==
    /\ ~res.Error
    /\ ~manual
    /\ \/ res.Download < CfgDownloadThreshold
       \/ res.Upload < CfgUploadThreshold

\* What runTest returns.
RunTestMsg(alertTriggered, manual) ==
    IF alertTriggered THEN "alert" ELSE IF manual THEN "manual" ELSE ""

\* runTest(ctx, manual) as one step: Run, the threshold check, Add.  manual
\* in sys tells, for every stored record, whether a /test request made it.
\* The caller of a scheduled test hands a non-empty message to bot.Send; the
\* startup goroutine does not get that far when the process, its context
\* cancelled, exits first.
RunTest(who, manual, ret, exited) ==
    LET res == ret.res
        alertTriggered == AlertTriggered(res, manual)
        stored == [res EXCEPT !.AlertSent = alertTriggered]
        msg == RunTestMsg(alertTriggered, manual)
    IN  /\ results' = AddResults(results, stored, maxSize)
        /\ sys' = [sys EXCEPT
              !.manual = AddResults(sys.manual, manual, maxSize),
              !.cancelled = sys.cancelled \/ ret.cancelled,
              !.startup = sys.startup \/ who = "startup"]
        /\ call' = [op |-> "runTest", who |-> who, manual |-> manual,
                    res |-> stored, msg |-> msg, exited |-> exited,
                    sent |-> ~manual /\ ~exited /\ msg # ""]
        /\ UNCHANGED maxSize

InitSystem ==
    /\ \E n \in Capacities :
          /\ results = NewManager(n).results
          /\ maxSize = NewManager(n).maxSize
    /\ call = [op |-> "none"]
    /\ sys = [clock |-> Window, cancelled |-> FALSE, startup |-> FALSE,
              manual |-> <<>>]
    /\ BotIdle
    /\ RenderIdle
    /\ DailyIdle
    /\ ConcIdle
    /\ MeasureIdle
    /\ ProcIdle

\* Time passes.
SysTick ==
    /\ sys.clock < Window + MaxTime
    /\ sys' = [sys EXCEPT !.clock = sys.clock + 1]
    /\ UNCHANGED vars
    /\ UNCHANGED notSystem

\* case <-ticker.C in main's loop, which cannot take the signal meanwhile.
TickerCase ==
    /\ ~sys.cancelled
    /\ \E ret \in RunReturns({s \in Scripts : s.cancel = CancelNever},
                              sys.clock) :
          RunTest("ticker", FALSE, ret, FALSE)
    /\ UNCHANGED notSystem

\* The startup goroutine, once; it may find the context cancelled.
StartupTest ==
    /\ ~sys.startup
    /\ \E ret \in RunReturns({s \in Scripts : sys.cancelled => s.cancel = 0},
                              sys.clock),
          exited \in BOOLEAN :
          /\ exited => ret.cancelled
          /\ RunTest("startup", FALSE, ret, exited)
    /\ UNCHANGED notSystem

\* testHandler for a /test request taken while the bot polls.
TestHandler ==
    /\ ~sys.cancelled
    /\ \E ret \in RunReturns(Scripts, sys.clock), exited \in BOOLEAN :
          /\ exited => ret.cancelled
          /\ RunTest("manual", TRUE, ret, exited)
    /\ UNCHANGED notSystem

\* getStats for /stats, and the summary of the daily report: both with
\* time.Now() and the configured thresholds.
GetStats ==
    /\ call' = [op |-> "GetLast24hSummary", now |-> sys.clock,
                dlThreshold |-> CfgDownloadThreshold,
                ulThreshold |-> CfgUploadThreshold,
                filtered |-> Filtered(results, sys.clock),
                ret |-> Summarize(results, sys.clock, CfgDownloadThreshold,
                                  CfgUploadThreshold)]
    /\ UNCHANGED <<results, maxSize, sys>>
    /\ UNCHANGED notSystem

\* case <-sigChan: cancel()
Shutdown ==
    /\ ~sys.cancelled
    /\ sys' = [sys EXCEPT !.cancelled = TRUE]
    /\ UNCHANGED vars
    /\ UNCHANGED notSystem

NextSystem ==
    SysTick \/ TickerCase \/ StartupTest \/ TestHandler \/ GetStats \/ Shutdown

SpecSystem == InitSystem /\ [][NextSystem]_systemVars

\* ---- C22 ----
\* C22: every record of the history whose AlertSent flag is set has no
\* error, comes from a scheduled test, and has its download below the
\* download threshold or its upload below the upload threshold; records of
\* manual tests and of failed tests are never flagged.
C22_FlaggedRecordsAreScheduledLow ==
    /\ Len(sys.manual) = Len(results)
    /\ \A k \in 1 .. Len(results) :
          /\ results[k].AlertSent =>
                /\ ~results[k].Error
                /\ ~sys.manual[k]
                /\ IsLowSpeed(results[k], CfgDownloadThreshold,
                              CfgUploadThreshold)
          /\ (sys.manual[k] \/ results[k].Error) => ~results[k].AlertSent

\* A manual test low on download, not flagged, followed by a scheduled test
\* low on upload only, flagged.
C22_Witness ==
    /\ Len(results) = 2
    /\ sys.manual = <<TRUE, FALSE>>
    /\ ~results[1].Error /\ results[1].Download < CfgDownloadThreshold
    /\ ~results[1].AlertSent
    /\ results[2].Download >= CfgDownloadThreshold
    /\ results[2].Upload < CfgUploadThreshold
    /\ results[2].AlertSent

\* ---- C21 ----
\* C21 as stated: a scheduled test hands an alert to Send exactly when its
\* recorded download is below the download threshold or its recorded upload
\* is below the upload threshold.
C21_Original ==
    (call.op = "runTest" /\ ~call.manual) =>
       (call.sent <=> IsLowSpeed(call.res, CfgDownloadThreshold,
                                 CfgUploadThreshold))

\* C21: a scheduled test whose caller gets to run hands an alert to Send
\* exactly when the test ended without an error and its recorded download is
\* below the download threshold or its recorded upload is below the upload
\* threshold; a failed test and a test meeting both thresholds hand over
\* nothing, and nothing is handed over once the process has exited.
C21_AlertForValidLowScheduledTest ==
    (call.op = "runTest" /\ ~call.manual) =>
       /\ ~call.exited =>
             (call.sent <=> /\ ~call.res.Error
                            /\ IsLowSpeed(call.res, CfgDownloadThreshold,
                                          CfgUploadThreshold))
       /\ call.exited => ~call.sent
       /\ call.sent => call.msg = "alert" /\ call.res.AlertSent

\* The ticker's test meets the download threshold and is low on upload: the
\* alert is handed to Send.
C21_Witness ==
    /\ call.op = "runTest"
    /\ call.who = "ticker"
    /\ ~call.res.Error
    /\ call.res.Download >= CfgDownloadThreshold
    /\ call.res.Upload < CfgUploadThreshold
    /\ call.sent

\* A scheduled test that gave up: its record has zero upload and no alert is
\* handed over.
C21_FailedTestIsSilent ==
    /\ call.op = "runTest"
    /\ call.who = "ticker"
    /\ call.res.Error
    /\ call.res.Upload < CfgUploadThreshold
    /\ ~call.sent

\* ---- C25 ----
\* C25: every Summary the running system computes satisfies AlertsCount <=
\* number of LowSpeedEvents <= number of in-window records without an error
\* <= TotalTests <= capacity of the history.
C25_SummaryCountsAreOrdered ==
    IsSummaryCall =>
       /\ call.ret.AlertsCount <= Len(call.ret.LowSpeedEvents)
       /\ Len(call.ret.LowSpeedEvents)
             <= Cardinality(ValidInWindow(results, call.now))
       /\ Cardinality(ValidInWindow(results, call.now)) <= call.ret.TotalTests
       /\ call.ret.TotalTests <= maxSize

\* A flagged scheduled test and an unflagged low manual test in the window
\* of a full history: one alert, two events.
C25_Witness ==
    /\ IsSummaryCall
    /\ Len(results) = maxSize
    /\ call.ret.AlertsCount = 1
    /\ Len(call.ret.LowSpeedEvents) = 2
    /\ call.ret.TotalTests = 2

\* A failed test next to a valid one that meets both thresholds: no alert, no
\* event, one valid record, two tests.
C25_WitnessStrict ==
    /\ IsSummaryCall
    /\ call.ret.AlertsCount = 0
    /\ Len(call.ret.LowSpeedEvents) = 0
    /\ Cardinality(ValidInWindow(results, call.now)) = 1
    /\ call.ret.TotalTests = 2

\* ======================================================================
\* The delivery worker under fair scheduling: the goroutine of senderLoop
\* keeps running, SendMessage returns, and a timer that is waited for fires.
\* ======================================================================
SpecBotFair ==
    /\ SpecBot
    /\ WF_botVars(SenderReceive)
    /\ WF_botVars(SenderAttempt)
    /\ WF_botVars(SenderBackoffElapsed)
    /\ WF_botVars(SenderBackoffCancelled)
    /\ WF_botVars(SenderReturn)

\* ---- C24 ----
\* C24: unless shutdown is signalled, a queued message is eventually taken
\* by the delivery worker, in the order of the queue, and a message taken is
\* eventually delivered or abandoned, abandoned only after its 5th failed
\* attempt; whatever the transport does, Send can always be called without
\* waiting and the worker ends only on shutdown.
C24_EveryMessageIsSettled ==
    /\ (msgQueue # <<>>) ~> (ctxDone \/ obs.op = "receive")
    /\ [][obs'.op = "receive" =>
            /\ msgQueue # <<>>
            /\ obs'.msg = Head(msgQueue)
            /\ msgQueue' = Tail(msgQueue)]_botVars
    /\ (sender.pc \in {"send", "backoff"})
          ~> (ctxDone \/ obs.op \in {"delivered", "abandoned"})
    /\ [](obs.op = "abandoned" => sender.attempts = MaxRetries)
    /\ [](sender.attempts <= MaxRetries)
    /\ [](ENABLED Send)
    /\ [](sender.pc = "returned" => ctxDone)

\* With the queue full and no shutdown, a message is delivered at its fifth
\* attempt.
C24_Witness ==
    /\ ~ctxDone
    /\ obs.op = "delivered"
    /\ sender.attempts = MaxRetries
    /\ Len(msgQueue) = QueueCapacity

\* ======================================================================
\* The tasks of the process and what they wait for: the mutex testMu of
\* runTest, the Manager's lock m.mu and the channel msgQueue.  Every task
\* is reduced to its calls on these three; what it computes in between is a
\* step that ends.  The tasks run their loops without end until the context
\* is cancelled.
\* ======================================================================

\* The tasks that call runTest.
Testers == {"ticker", "startup", "manual"}

\* The tasks that call GetLast24hSummary: the /stats handler, the daily report.
Summarizers == {"stats", "daily"}

Tasks == Testers \cup Summarizers \cup {"sender"}

\* Where a task is when it is outside its handler.
AtRest == {"rest", "done", "returned"}

\* Which locks a task holds.
HoldsTestMu(t) == testMu = t

HoldsHistory(t) == (mu.w = t /\ mu.held) \/ t \in mu.readers

InitTasks ==
    /\ testMu = "none"
    /\ mu = [w |-> "none", held |-> FALSE, readers |-> {}, blocked |-> {}]
    /\ msgQueue = <<>>
    /\ ctxDone = FALSE
    /\ proc = [t \in Tasks |-> [pc |-> "rest", msg |-> ""]]
    /\ MgrIdle
    /\ sender = [pc |-> "idle"]
    /\ obs = [op |-> "none"]
    /\ RenderIdle
    /\ DailyIdle
    /\ task = <<>>
    /\ versions = <<>>
    /\ trigger = <<>>
    /\ ctxErr = FALSE
    /\ clock = 0
    /\ main = [pc |-> "idle"]
    /\ SysIdle

\* A tick, the end of the startup delay, or a /test request: the task calls
\* runTest and with it testMu.Lock().  main takes ticks, and the bot takes
\* requests, only until the context is cancelled.
TestBegin(t) ==
    /\ t \in Testers
    /\ proc[t].pc = "rest"
    /\ t # "startup" => ~ctxDone
    /\ proc' = [proc EXCEPT ![t] = [pc |-> "lockTest", msg |-> ""]]
    /\ UNCHANGED <<testMu, mu, msgQueue, ctxDone>>
    /\ UNCHANGED notTasks

\* testMu.Lock() returns.
TestLock(t) ==
    /\ proc[t].pc = "lockTest"
    /\ LockFree(testMu)
    /\ testMu' = t
    /\ proc' = [proc EXCEPT ![t].pc = "run"]
    /\ UNCHANGED <<mu, msgQueue, ctxDone>>
    /\ UNCHANGED notTasks

\* speedRunner.Run(ctx) returns, with a result below a threshold, a result
\* that needs no alert, or an error (failed or cancelled); runTest goes on to
\* statsMgr.Add with the message it will return.
TestRun(t) ==
    /\ proc[t].pc = "run"
    /\ \E outcome \in {"low", "fine", "error"} :
          proc' = [proc EXCEPT
             ![t] = [pc |-> "lockHist",
                     msg |-> IF t = "manual" THEN "manual"
                             ELSE IF outcome = "low" THEN "alert" ELSE ""]]
    /\ UNCHANGED <<testMu, mu, msgQueue, ctxDone>>
    /\ UNCHANGED notTasks

\* Add: m.mu.Lock() takes the writers' inner mutex and announces the writer.
HistAnnounce(t) ==
    /\ proc[t].pc = "lockHist"
    /\ mu.w = "none"
    /\ mu' = [mu EXCEPT !.w = t]
    /\ proc' = [proc EXCEPT ![t].pc = "drain"]
    /\ UNCHANGED <<testMu, msgQueue, ctxDone>>
    /\ UNCHANGED notTasks

\* m.mu.Lock() returns once the active readers have left; Add appends and
\* trims.
HistLock(t) ==
    /\ proc[t].pc = "drain"
    /\ mu.readers = {}
    /\ mu' = [mu EXCEPT !.held = TRUE]
    /\ proc' = [proc EXCEPT ![t].pc = "add"]
    /\ UNCHANGED <<testMu, msgQueue, ctxDone>>
    /\ UNCHANGED notTasks

\* Faulty variant: Add returns without m.mu.Unlock().
HistUnlockForgotten(t) ==
    /\ proc[t].pc = "add"
    /\ proc' = [proc EXCEPT ![t].pc = "unlockTest"]
    /\ UNCHANGED <<testMu, mu, msgQueue, ctxDone>>
    /\ UNCHANGED notTasks

\* Add's deferred m.mu.Unlock(): the readers held back become active.
HistUnlock(t) ==
    /\ proc[t].pc = "add"
    /\ mu' = [w |-> "none", held |-> FALSE, readers |-> mu.blocked,
              blocked |-> {}]
    /\ proc' = [u \in Tasks |->
                  IF u = t THEN [proc[u] EXCEPT !.pc = "unlockTest"]
                  ELSE IF u \in mu.blocked THEN [proc[u] EXCEPT !.pc = "read"]
                  ELSE proc[u]]
    /\ UNCHANGED <<testMu, msgQueue, ctxDone>>
    /\ UNCHANGED notTasks

\* runTest's deferred testMu.Unlock(); the caller has the message.
TestUnlock(t) ==
    /\ proc[t].pc = "unlockTest"
    /\ testMu' = "none"
    /\ proc' = [proc EXCEPT ![t].pc = "handover"]
    /\ UNCHANGED <<mu, msgQueue, ctxDone>>
    /\ UNCHANGED notTasks

\* GetLast24hSummary: m.mu.RLock() succeeds or holds the caller back.  The
\* daily report's timer fires only while the context is live.
SummaryBegin(t) ==
    /\ t \in Summarizers
    /\ proc[t].pc = "rest"
    /\ t = "daily" => ~ctxDone
    /\ IF CanRLock(mu)
       THEN /\ mu' = [mu EXCEPT !.readers = mu.readers \cup {t}]
            /\ proc' = [proc EXCEPT ![t] = [pc |-> "read", msg |-> ""]]
       ELSE /\ mu' = [mu EXCEPT !.blocked = mu.blocked \cup {t}]
            /\ proc' = [proc EXCEPT ![t] = [pc |-> "blocked", msg |-> ""]]
    /\ UNCHANGED <<testMu, msgQueue, ctxDone>>
    /\ UNCHANGED notTasks

\* The summary is computed; the deferred m.mu.RUnlock() runs.
SummaryEnd(t) ==
    /\ proc[t].pc = "read"
    /\ mu' = [mu EXCEPT !.readers = mu.readers \ {t}]
    /\ proc' = [proc EXCEPT ![t] = [pc |-> "handover",
                                    msg |-> IF t = "daily" THEN "report"
                                            ELSE "stats"]]
    /\ UNCHANGED <<testMu, msgQueue, ctxDone>>
    /\ UNCHANGED notTasks

\* What the caller does with the message: main's loop, the startup
\* goroutine and the daily report call bot.Send when there is one, the
\* handlers answer with SendMessage.  The startup goroutine ends, the others
\* go back to waiting.
HandOver(t) ==
    /\ proc[t].pc = "handover"
    /\ msgQueue' = IF proc[t].msg \in Msgs
                   THEN SendQueue(msgQueue, proc[t].msg)
                   ELSE msgQueue
    /\ proc' = [proc EXCEPT ![t] = [pc |-> IF t = "startup" THEN "done"
                                           ELSE "rest",
                                    msg |-> ""]]
    /\ UNCHANGED <<testMu, mu, ctxDone>>
    /\ UNCHANGED notTasks

\* senderLoop: case msg := <-b.msgQueue
WorkerReceive ==
    /\ proc["sender"].pc = "rest"
    /\ msgQueue # <<>>
    /\ msgQueue' = Tail(msgQueue)
    /\ proc' = [proc EXCEPT !["sender"] = [pc |-> "deliver",
                                           msg |-> Head(msgQueue)]]
    /\ UNCHANGED <<testMu, mu, ctxDone>>
    /\ UNCHANGED notTasks

\* sendMessageWithRetry returns: delivered, abandoned or cancelled.
WorkerDeliver ==
    /\ proc["sender"].pc = "deliver"
    /\ proc' = [proc EXCEPT !["sender"] = [pc |-> "rest", msg |-> ""]]
    /\ UNCHANGED <<testMu, mu, msgQueue, ctxDone>>
    /\ UNCHANGED notTasks

\* case <-ctx.Done(): return, in senderLoop and in dailyReportLoop.
LoopReturn(t) ==
    /\ t \in {"sender", "daily"}
    /\ proc[t].pc = "rest"
    /\ ctxDone
    /\ proc' = [proc EXCEPT ![t].pc = "returned"]
    /\ UNCHANGED <<testMu, mu, msgQueue, ctxDone>>
    /\ UNCHANGED notTasks

\* case <-sigChan: cancel(), which main reaches from its select only.
TasksCancel ==
    /\ ~ctxDone
    /\ proc["ticker"].pc = "rest"
    /\ ctxDone' = TRUE
    /\ UNCHANGED <<testMu, mu, msgQueue, proc>>
    /\ UNCHANGED notTasks

TaskStep(t) ==
    \/ TestBegin(t) \/ TestLock(t) \/ TestRun(t)
    \/ HistAnnounce(t) \/ HistLock(t) \/ HistUnlock(t) \/ TestUnlock(t)
    \/ SummaryBegin(t) \/ SummaryEnd(t) \/ HandOver(t) \/ LoopReturn(t)

NextTasks ==
    \/ \E t \in Tasks : TaskStep(t)
    \/ WorkerReceive
    \/ WorkerDeliver
    \/ TasksCancel

SpecTasks == InitTasks /\ [][NextTasks]_taskVars

\* The tasks a task waits for: the holder of the lock it has asked for.
WaitsFor(t) ==
    IF proc[t].pc = "lockTest" THEN {u \in Tasks : testMu = u}
    ELSE IF proc[t].pc = "lockHist" THEN {u \in Tasks : mu.w = u}
    ELSE IF proc[t].pc = "drain" THEN mu.readers
    ELSE IF proc[t].pc = "blocked" THEN {u \in Tasks : mu.w = u}
    ELSE {}

\* The tasks reachable from S along WaitsFor in at most n steps.
RECURSIVE WaitChain(_, _)
WaitChain(S, n) ==
    IF n = 0 THEN S
    ELSE WaitChain(S \cup UNION {WaitsFor(u) : u \in S}, n - 1)

\* ---- C26 ----
\* C26: the tasks cannot deadlock on testMu, m.mu and msgQueue: no task
\* waits, directly or through others, for itself, and a task that others
\* wait for and that waits for nobody can take its next step; testMu is
\* never asked for or taken by a task that holds m.mu; a task that calls
\* Send or receives from the queue holds neither lock; and a task outside
\* its handler holds no lock, however the measurement ended.
C26_NoDeadlockOnLocksAndQueue ==
    /\ [](\A t \in Tasks :
            LET chain == WaitChain(WaitsFor(t), Cardinality(Tasks))
            IN  /\ t \notin chain
                /\ \A u \in chain : WaitsFor(u) = {} => ENABLED TaskStep(u))
    /\ [](\A t \in Tasks :
            /\ proc[t].pc = "lockTest" => ~HoldsHistory(t) /\ mu.w # t
            /\ proc[t].pc \in {"handover", "deliver"} \cup AtRest =>
                  /\ ~HoldsTestMu(t)
                  /\ ~HoldsHistory(t)
                  /\ mu.w # t
                  /\ t \notin mu.blocked)
    /\ [][\A t \in Tasks :
            (testMu' = t /\ testMu # t) => ~HoldsHistory(t) /\ mu.w # t]_taskVars
    /\ [](ENABLED NextTasks)

\* The ticker holds testMu and waits, as announced writer, for the /stats
\* handler to finish reading; the startup task waits for testMu and the
\* daily report is held back by the writer, while the queue is full.
C26_Witness ==
    /\ testMu = "ticker"
    /\ proc["ticker"].pc = "drain"
    /\ mu.readers = {"stats"}
    /\ proc["startup"].pc = "lockTest"
    /\ mu.blocked = {"daily"}
    /\ Len(msgQueue) = QueueCapacity
====
